---- MODULE Spec2Model ----
(***************************************************************************)
(* Verification model of the Agentic Form Filler: the answer dispatcher    *)
(* (agents/answer_agent.py), the navigation agent                          *)
(* (agents/navigation_agent.py), the element-based question extraction and *)
(* the question classification (agents/reasoning_agent.py), the element    *)
(* interaction (browser/browser_handler.py, utils/element_finder.py), the  *)
(* page orchestrator (form_filler.py) and the entry point (main.py).       *)
(***************************************************************************)
EXTENDS Integers, Sequences, FiniteSets, TLC

VARIABLES
    \* ---- answer dispatcher (AnswerAgent.generate_answer) ----
    question,       \* the question dictionary handed to generate_answer
    gen,            \* behaviour of client.generate for this call
    rnd,            \* values drawn from the random module during this call
    answer,         \* value returned by generate_answer
    apc,            \* "idle" before the call, "done" after it returned
    \* ---- navigation agent (NavigationAgent) ----
    page,               \* the page the driver currently shows
    next_page_attempts, \* NavigationAgent.next_page_attempts
    nav,                \* outcome of the last navigate_next call
    navCalls,           \* number of navigate_next calls made so far
    \* ---- element-based extraction (ReasoningAgent) ----
    dom,                \* what the element finder returns on the current page
    extracted,          \* the question list returned by the extraction
    radio_groups,       \* the groups _group_elements_by_question returned for the radios
    epc,                \* "idle" before the call, "done" after it returned
    \* ---- page orchestrator (FormFiller) ----
    form,               \* the pages of the form: what extraction yields on each
    browserPage,        \* index of the page the browser shows
    fpc,                \* position of fill_form
    current_page,       \* FormFiller.current_page
    questions_answered, \* FormFiller.questions_answered
    total_questions,    \* FormFiller.total_questions
    qIdx,               \* position of process_current_page's loop over questions
    fAnswer,            \* the answer generated for the question at qIdx
    fillLog,            \* the values fill_answer returned during this run
    next_actions,       \* the values determine_next_action returned during this run
    navLookups,         \* number of uses of the navigation agent by fill_form
    result,             \* value fill_form returns, set when it leaves its try block
    exitPath,           \* the way fill_form left its try block
    statsEmitted,       \* whether lines 119-123 logged pages and questions
    screenshots,        \* number of take_screenshot calls made by fill_form
    events,             \* the steps fill_form took during this run, in order
    runs,               \* number of fill_form calls this FormFiller has completed before
    \* ---- element interaction (BrowserHandler.fill_answer, ElementFinder.click_element) ----
    dq,                 \* the question dictionary handed to fill_answer
    dans,               \* the answer value handed to fill_answer
    denv,               \* how the driver behaved during the call
    dres,               \* what the call did and returned
    dpc,                \* "idle" before the call, "done" after it returned
    \* ---- question classification (ReasoningAgent._classify_question) ----
    container,          \* the controls found under the question's container
    classified,         \* the tuple _classify_question returned
    cpc,                \* "idle" before the call, "done" after it returned
    \* ---- question extraction (ReasoningAgent.extract_questions) ----
    question_texts,     \* the label elements get_question_texts returns
    scanDom,            \* what the element finder returns for the raw controls
    scanned,            \* what extract_questions did and returned
    spc,                \* "idle" before the call, "done" after it returned
    \* ---- construction (FormFiller.__init__) ----
    kwargs,             \* the keyword arguments of the constructor call and their values
    kenv,               \* the configuration and the driver start-up during the call
    built,              \* how the constructor call ended and what it did
    kpc,                \* "idle" before the call, "done" after it returned or raised
    \* ---- command line entry point (main.py) ----
    margs,              \* the API key's presence and the parsed arguments
    outcomes,           \* how each submission made so far ended
    successful_submissions, \* main's counter of the same name
    exit_code,          \* the value main returns to sys.exit
    mpc                 \* position of main

avars == <<question, gen, rnd, answer, apc>>

nvars == <<page, next_page_attempts, nav, navCalls>>

evars == <<dom, extracted, radio_groups, epc>>

fvars == <<form, browserPage, fpc, current_page, questions_answered, total_questions,
           qIdx, fAnswer, fillLog, next_actions, navLookups, result, exitPath,
           statsEmitted, screenshots, events, runs>>

dvars == <<dq, dans, denv, dres, dpc>>

cvars == <<container, classified, cpc>>

svars == <<question_texts, scanDom, scanned, spc>>

kvars == <<kwargs, kenv, built, kpc>>

mvars == <<margs, outcomes, successful_submissions, exit_code, mpc>>

vars == <<avars, nvars, evars, fvars, dvars, cvars, svars, kvars, mvars>>

(***************************************************************************)
(* Bounds of the model                                                     *)
(***************************************************************************)
MaxOptions == 4     \* largest number of options of a question
MaxTokens  == 2     \* largest number of tokens of a generator response
MaxNums    == 2     \* largest number of integers after "Selected options:"
MaxBody    == 32    \* longest non-blank body of a generated text
MaxPad     == 1     \* longest run of blanks around a generated text
MaxNavCalls == 4    \* largest number of navigate_next calls on one agent
MaxRadios  == 3     \* largest number of raw radio elements on a page
MaxChecks  == 2     \* largest number of raw checkbox elements on a page
MaxInputs  == 1     \* largest number of raw text inputs, and of text areas
MaxDropOpts == 2    \* largest number of option elements present on a page
MaxQuestions == 2   \* largest number of questions on the first page of a form
MaxReruns  == 1     \* largest number of further fill_form calls on one FormFiller
MaxElements == 3    \* largest number of elements of a question handed to fill_answer
MaxPicks   == 2     \* largest number of indices in a list answer handed to fill_answer
MaxControls == 2    \* largest number of controls of one kind in a question container
MaxLabels  == 2     \* largest number of label elements on a page
MaxSubmissions == 3 \* largest value of --submissions

(***************************************************************************)
(* config.py QUESTION_TYPES                                                *)
(***************************************************************************)
TEXT            == "text"
PARAGRAPH       == "paragraph"
MULTIPLE_CHOICE == "multiple_choice"
CHECKBOX        == "checkbox"
DROPDOWN        == "dropdown"
UNKNOWN         == "unknown"

QUESTION_TYPES == {TEXT, PARAGRAPH, MULTIPLE_CHOICE, CHECKBOX, DROPDOWN, UNKNOWN}

SelectionTypes == {MULTIPLE_CHOICE, CHECKBOX, DROPDOWN}

(***************************************************************************)
(* Strings are sequences of characters; " " is the only blank used.        *)
(***************************************************************************)
Blank == " "

Chars(n, c) == [i \in 1..n |-> c]

\* A generated text: lead blanks, body non-blank characters, trail blanks.
Text(lead, body, trail) == Chars(lead, Blank) \o Chars(body, "a") \o Chars(trail, Blank)

RECURSIVE lstrip(_)
lstrip(s) == IF s = <<>> THEN s
             ELSE IF Head(s) = Blank THEN lstrip(Tail(s)) ELSE s

RECURSIVE rstrip(_)
rstrip(s) == IF s = <<>> THEN s
             ELSE IF s[Len(s)] = Blank THEN rstrip(SubSeq(s, 1, Len(s) - 1)) ELSE s

\* str.strip()
strip(s) == rstrip(lstrip(s))

\* "Sample response"
SAMPLE_RESPONSE ==
    <<"S","a","m","p","l","e"," ","r","e","s","p","o","n","s","e">>

\* "Fallback response"
FALLBACK_RESPONSE ==
    <<"F","a","l","l","b","a","c","k"," ","r","e","s","p","o","n","s","e">>

\* The two fixed paragraph strings; only their identity matters.
SAMPLE_PARAGRAPH   == <<"sample paragraph response">>
FALLBACK_PARAGRAPH == <<"fallback paragraph response">>

TextLimit == 30

(***************************************************************************)
(* Generator responses.                                                    *)
(* For text and paragraph questions the response is a character sequence.  *)
(* For multiple_choice and dropdown it is a sequence of tokens:            *)
(*   [k |-> "word"]          a whitespace-delimited word that is no number *)
(*   [k |-> "num", n |-> v]  a whitespace-delimited decimal integer v      *)
(*   [k |-> "sel", n |-> v]  the phrase "Selected option: v"               *)
(*   [k |-> "uni"]           a word of non-decimal digits: isdigit() holds *)
(*                           and int() raises ValueError                   *)
(* For checkbox it is [match, nums]: whether "Selected options?:" matched  *)
(* and the integers found in the matched group.                            *)
(***************************************************************************)
Word   == [k |-> "word", n |-> 0]
Uni    == [k |-> "uni",  n |-> 0]
Num(v) == [k |-> "num",  n |-> v]
Sel(v) == [k |-> "sel",  n |-> v]

Tokens(n) == {Word, Uni} \cup {Num(v) : v \in 0..(n + 1)} \cup {Sel(v) : v \in 0..(n + 1)}

SeqsUpTo(S, m) == UNION {[1..l -> S] : l \in 0..m}

Range(f) == {f[i] : i \in DOMAIN f}

Ret(v) == [raised |-> FALSE, val |-> v]

\* Python values with their type: str, int and list; the value is held in
\* the field named after the type
StrAns(v)  == [kind |-> "str",  str |-> v]
IntAns(v)  == [kind |-> "int",  int |-> v]
ListAns(v) == [kind |-> "list", list |-> v]
NoAnswer   == [kind |-> "none", none |-> 0]
\* a list whose items are strings: a value of the wrong shape for fill_answer
StrListAns(v) == [kind |-> "strlist", strlist |-> v]
Raised == [raised |-> TRUE,  val |-> "exception"]

(***************************************************************************)
(* random module: the values a call draws are fixed by rnd.                *)
(*   rnd.coin   random.random() < 0.3                                      *)
(*   rnd.u      raw integer behind randint                                 *)
(*   rnd.perm   random order of range(n) behind random.sample              *)
(***************************************************************************)
randint(r, a, b) == a + (r.u % (b - a + 1))

sample(r, k) == SubSeq(r.perm, 1, k)

Min(a, b) == IF a < b THEN a ELSE b

Perms(n) == {p \in [1..n -> 0..(n - 1)] : \A i, j \in 1..n : p[i] = p[j] => i = j}

Rnd(n) == [coin : BOOLEAN, u : 0..(IF n > 3 THEN n - 1 ELSE 2), perm : Perms(n)]

(***************************************************************************)
(* AnswerAgent._generate_text_answer                                       *)
(***************************************************************************)
\* variant without the 30-character ceiling
generate_text_answer_untruncated(q, g) ==
    IF g.raises THEN SAMPLE_RESPONSE ELSE strip(g.text)

generate_text_answer(q, g) ==
    IF g.raises THEN SAMPLE_RESPONSE
    ELSE LET stripped == strip(g.text)
         IN  IF Len(stripped) > TextLimit THEN SubSeq(stripped, 1, TextLimit)
             ELSE stripped

(***************************************************************************)
(* AnswerAgent._generate_paragraph_answer                                  *)
(***************************************************************************)
\* variant without the except branch: the failure is not replaced by the fixed text
generate_paragraph_answer_unguarded(q, g) == strip(g.text)

generate_paragraph_answer(q, g) ==
    IF g.raises THEN SAMPLE_PARAGRAPH ELSE strip(g.text)

(***************************************************************************)
(* AnswerAgent._select_multiple_choice_answer                              *)
(***************************************************************************)
\* re.search(r"Selected option:\s*(\d+)"): position of the first match, 0 if none
RECURSIVE FirstSel(_, _)
FirstSel(toks, i) ==
    IF i > Len(toks) THEN 0
    ELSE IF toks[i].k = "sel" THEN i ELSE FirstSel(toks, i + 1)

\* for word in answer_text.split(): first in-range integer, minus one
RECURSIVE ScanWords(_, _, _)
ScanWords(toks, i, n) ==
    IF i > Len(toks) THEN Ret(0)
    ELSE IF toks[i].k = "uni" THEN Raised
    ELSE IF toks[i].k = "num" /\ 1 <= toks[i].n /\ toks[i].n <= n
         THEN Ret(toks[i].n - 1)
    ELSE ScanWords(toks, i + 1, n)

\* variant that trusts the number after "Selected option:" without a range check
select_multiple_choice_answer_unchecked(q, g, r) ==
    LET n == Len(q.options)
    IN  IF n = 0 THEN 0
        ELSE IF n < 4 /\ r.coin THEN randint(r, 0, n - 1)
        ELSE IF g.raises THEN 0
        ELSE LET m == FirstSel(g.text, 1)
             IN  IF m # 0 THEN g.text[m].n - 1
                 ELSE LET scan == ScanWords(g.text, 1, n)
                      IN  IF scan.raised THEN 0
                          ELSE IF scan.val = 0 /\ n > 1
                               THEN randint(r, 0, n - 1)
                               ELSE scan.val

select_multiple_choice_answer(q, g, r) ==
    LET options == q.options
        n       == Len(options)
    IN  IF n = 0 THEN 0
        ELSE IF n < 4 /\ r.coin THEN randint(r, 0, n - 1)
        ELSE IF g.raises THEN 0
        ELSE LET m == FirstSel(g.text, 1)
             IN  IF m # 0
                 THEN IF 1 <= g.text[m].n /\ g.text[m].n <= n
                      THEN g.text[m].n - 1
                      ELSE 0
                 ELSE LET scan == ScanWords(g.text, 1, n)
                      IN  IF scan.raised THEN 0
                          ELSE IF scan.val = 0 /\ n > 1
                               THEN randint(r, 0, n - 1)
                               ELSE scan.val

(***************************************************************************)
(* AnswerAgent._select_checkbox_answers                                    *)
(***************************************************************************)
\* the in-range integers of the matched group, converted to 0-based indices
\* variant that converts every integer of the group, in range or not
InRangeIndices_unfiltered(nums, n) == [i \in 1..Len(nums) |-> nums[i] - 1]

RECURSIVE InRangeIndices(_, _)
InRangeIndices(nums, n) ==
    IF nums = <<>> THEN <<>>
    ELSE IF 1 <= Head(nums) /\ Head(nums) <= n
         THEN <<Head(nums) - 1>> \o InRangeIndices(Tail(nums), n)
         ELSE InRangeIndices(Tail(nums), n)

select_checkbox_answers(q, g, r) ==
    LET options == q.options
        n       == Len(options)
    IN  IF n = 0 THEN <<>>
        ELSE IF n > 3 /\ g.raises THEN <<0>>
        ELSE LET parsed   == IF g.text.match THEN InRangeIndices(g.text.nums, n)
                             ELSE <<>>
                 selected == IF n > 3
                             THEN IF parsed = <<>>
                                  THEN sample(r, randint(r, 1, Min(3, n)))
                                  ELSE parsed
                             ELSE sample(r, randint(r, 1, Min(2, n)))
             IN  IF selected = <<>> THEN <<0>> ELSE selected

(***************************************************************************)
(* AnswerAgent._select_dropdown_answer                                     *)
(***************************************************************************)
select_dropdown_answer(q, g, r) == select_multiple_choice_answer(q, g, r)

(***************************************************************************)
(* AnswerAgent._generate_fallback_answer                                   *)
(***************************************************************************)
generate_fallback_answer(q) ==
    IF q.type = TEXT THEN StrAns(FALLBACK_RESPONSE)
    ELSE IF q.type = PARAGRAPH THEN StrAns(FALLBACK_PARAGRAPH)
    ELSE IF q.type = MULTIPLE_CHOICE \/ q.type = DROPDOWN THEN IntAns(0)
    ELSE IF q.type = CHECKBOX THEN ListAns(IF q.options # <<>> THEN <<0>> ELSE <<>>)
    ELSE StrAns(<<>>)

(***************************************************************************)
(* AnswerAgent.generate_answer: the dispatch inside the try block; every   *)
(* strategy catches its own exceptions, so the block returns normally.     *)
(***************************************************************************)
dispatch(q, g, r) ==
    IF q.type = TEXT THEN Ret(StrAns(generate_text_answer(q, g)))
    ELSE IF q.type = PARAGRAPH THEN Ret(StrAns(generate_paragraph_answer(q, g)))
    ELSE IF q.type = MULTIPLE_CHOICE THEN Ret(IntAns(select_multiple_choice_answer(q, g, r)))
    ELSE IF q.type = CHECKBOX THEN Ret(ListAns(select_checkbox_answers(q, g, r)))
    ELSE IF q.type = DROPDOWN THEN Ret(IntAns(select_dropdown_answer(q, g, r)))
    ELSE Ret(StrAns(<<>>))

generate_answer(q, g, r) ==
    LET res == dispatch(q, g, r)
    IN  IF res.raised THEN generate_fallback_answer(q) ELSE res.val

\* whether the call reaches self.client.generate: always for text and
\* paragraph (lines 99, 142); for multiple_choice and dropdown past the
\* returns of lines 174 and 182 (line 197); for checkbox only with more than
\* three options (lines 260, 274)
generator_called(q, r) ==
    LET n == Len(q.options)
    IN  IF q.type \in {TEXT, PARAGRAPH} THEN TRUE
        ELSE IF q.type \in {MULTIPLE_CHOICE, DROPDOWN} THEN n # 0 /\ ~(n < 4 /\ r.coin)
        ELSE IF q.type = CHECKBOX THEN n > 3
        ELSE FALSE

(***************************************************************************)
(* Inputs of the dispatcher                                                *)
(***************************************************************************)
Options(n) == [i \in 1..n |-> "Option"]

Question(t, n) == [text |-> <<"Label">>, type |-> t, options |-> Options(n), elements |-> <<>>]

Questions ==
    {Question(t, 0) : t \in {TEXT, PARAGRAPH, UNKNOWN}}
    \cup {Question(t, n) : t \in SelectionTypes, n \in 0..MaxOptions}

Texts == {Text(l, b, t) : l \in 0..MaxPad, b \in 0..MaxBody, t \in 0..MaxPad}

Responses(q) ==
    IF q.type \in {TEXT, PARAGRAPH} THEN Texts
    ELSE IF q.type = CHECKBOX
         THEN [match : BOOLEAN, nums : SeqsUpTo(0..(Len(q.options) + 1), MaxNums)]
    ELSE IF q.type \in {MULTIPLE_CHOICE, DROPDOWN}
         THEN SeqsUpTo(Tokens(Len(q.options)), MaxTokens)
    ELSE {<<>>}

GenBehaviours(q) ==
    {[raises |-> TRUE, text |-> <<>>]}
    \cup {[raises |-> FALSE, text |-> t] : t \in Responses(q)}

NoGen == [raises |-> FALSE, text |-> <<>>]
NoRnd == [coin |-> FALSE, u |-> 0, perm |-> <<>>]

(***************************************************************************)
(* Specification of the dispatcher: one call of generate_answer on an      *)
(* arbitrary question under an arbitrary generator and random behaviour.   *)
(***************************************************************************)
InitAnswer ==
    /\ question \in Questions
    /\ gen = NoGen
    /\ rnd = NoRnd
    /\ answer = NoAnswer
    /\ apc = "idle"

GenerateAnswer ==
    /\ apc = "idle"
    /\ \E g \in GenBehaviours(question), r \in Rnd(Len(question.options)) :
           /\ gen' = g
           /\ rnd' = r
           /\ answer' = generate_answer(question, g, r)
    /\ apc' = "done"
    /\ UNCHANGED question

NextAnswer == GenerateAnswer


(***************************************************************************)
(* NavigationAgent: selector lists.  The fourth advance selector and the   *)
(* third submit selector are the same XPath.                               *)
(***************************************************************************)
NEXT_BUTTON_IDENTIFIERS ==
    <<"span_Next", "span_Continue", "button_Next", "navButtons_div2", "label_Next">>

SUBMIT_BUTTON_IDENTIFIERS ==
    <<"span_Submit", "button_Submit", "navButtons_div2", "label_Submit">>

max_attempts == 3

(***************************************************************************)
(* A page as the driver presents it.                                       *)
(*   completed  "message": a completion indicator is displayed,            *)
(*              "url": the URL holds formResponse or closedform, "no"      *)
(*   match      for every selector the first element find_element returns, *)
(*              "none" when it raises NoSuchElementException               *)
(*   usable     the elements for which is_displayed() and is_enabled()     *)
(* The elements are the page's submit control and its advance control.  A  *)
(* selector that tests for the text Submit can only match the former, one  *)
(* that tests for Next or Continue only the latter; the positional         *)
(* selector can match either.  find_button returns the first usable match, *)
(* so one text selector per control covers every outcome.                  *)
(***************************************************************************)
NoElement == "none"
SubmitBtn == "submitBtn"
NextBtn   == "nextBtn"

SubmitTextIds == {"span_Submit", "button_Submit", "label_Submit"}
NextTextIds   == {"span_Next", "span_Continue", "button_Next", "label_Next"}
PositionalId  == "navButtons_div2"

Identifiers == SubmitTextIds \cup NextTextIds \cup {PositionalId}

Matches(sid, nid, pos) ==
    [id \in Identifiers |->
        IF id = PositionalId THEN pos
        ELSE IF id = sid THEN SubmitBtn
        ELSE IF id = nid THEN NextBtn
        ELSE NoElement]

Pages ==
    {[completed |-> c, match |-> Matches(sid, nid, pos), usable |-> u] :
        c \in {"no", "message", "url"},
        sid \in SubmitTextIds \cup {NoElement},
        nid \in NextTextIds \cup {NoElement},
        pos \in {NoElement, SubmitBtn, NextBtn},
        u \in SUBSET {SubmitBtn, NextBtn}}

(***************************************************************************)
(* NavigationAgent.is_form_completed                                       *)
(***************************************************************************)
is_form_completed(p) == p.completed = "message" \/ p.completed = "url"

(***************************************************************************)
(* NavigationAgent._wait_for_form_completion on the page p shown when the  *)
(* wait ends.  It is called after a submit click on a page for which       *)
(* is_form_completed was False (line 67), so a completion URL on p is a    *)
(* changed URL.  navigate_next discards the value (line 82).               *)
(***************************************************************************)
wait_for_form_completion(p) == p.completed = "message" \/ p.completed = "url"

(***************************************************************************)
(* NavigationAgent._find_button                                            *)
(***************************************************************************)
RECURSIVE find_button_from(_, _, _)
find_button_from(p, identifiers, i) ==
    IF i > Len(identifiers) THEN NoElement
    ELSE LET element == p.match[identifiers[i]]
         IN  IF element # NoElement /\ element \in p.usable THEN element
             ELSE find_button_from(p, identifiers, i + 1)

find_button(p, identifiers) == find_button_from(p, identifiers, 1)

(***************************************************************************)
(* NavigationAgent.navigate_next on page p with counter value attempts;    *)
(* clickRaises says whether the try block around the click raises.         *)
(*   ret       the boolean returned                                        *)
(*   path      the return statement taken                                  *)
(*   target    the element click() was called on, "none" if no call        *)
(*   clicked   whether that click went through                             *)
(*   attempts  the counter value after the call                            *)
(***************************************************************************)
NavResult(r, pth, t, c, a) ==
    [ret |-> r, path |-> pth, target |-> t, clicked |-> c, attempts |-> a]

\* lines 71-120: the submit branch, then the advance branch
navigate_buttons(p, attempts, clickRaises) ==
    LET submit_button == find_button(p, SUBMIT_BUTTON_IDENTIFIERS)
        next_button   == find_button(p, NEXT_BUTTON_IDENTIFIERS)
    IN  IF submit_button # NoElement
        THEN IF ~clickRaises
             THEN NavResult(FALSE, "submitted", submit_button, TRUE, attempts)
             ELSE IF attempts + 1 >= max_attempts
                  THEN NavResult(FALSE, "submit_giveup", submit_button, FALSE, attempts + 1)
                  ELSE NavResult(TRUE, "submit_retry", submit_button, FALSE, attempts + 1)
        ELSE IF next_button # NoElement
        THEN IF ~clickRaises
             THEN NavResult(TRUE, "advanced", next_button, TRUE, 0)
             ELSE IF attempts + 1 >= max_attempts
                  THEN NavResult(FALSE, "next_giveup", next_button, FALSE, attempts + 1)
                  ELSE NavResult(TRUE, "next_retry", next_button, FALSE, attempts + 1)
        ELSE NavResult(FALSE, "no_button", NoElement, FALSE, attempts)

\* variant that looks for the buttons before it tests for completion
navigate_next_buttons_first(p, attempts, clickRaises) ==
    IF find_button(p, SUBMIT_BUTTON_IDENTIFIERS) # NoElement
       \/ find_button(p, NEXT_BUTTON_IDENTIFIERS) # NoElement
    THEN navigate_buttons(p, attempts, clickRaises)
    ELSE IF is_form_completed(p)
         THEN NavResult(FALSE, "completed", NoElement, FALSE, attempts)
         ELSE NavResult(FALSE, "no_button", NoElement, FALSE, attempts)

navigate_next(p, attempts, clickRaises) ==
    IF is_form_completed(p)
    THEN NavResult(FALSE, "completed", NoElement, FALSE, attempts)
    ELSE navigate_buttons(p, attempts, clickRaises)

NoNav == [ret |-> FALSE, path |-> "none", target |-> NoElement]

(***************************************************************************)
(* Specification of the navigation agent: a freshly constructed agent on   *)
(* an arbitrary page; every step is one navigate_next call.  A click that  *)
(* goes through lets the driver show any page afterwards; a call without   *)
(* a successful click leaves the page as it is.                            *)
(***************************************************************************)
InitNav ==
    /\ page \in Pages
    /\ next_page_attempts = 0
    /\ nav = NoNav
    /\ navCalls = 0

NavigateNext ==
    /\ navCalls < MaxNavCalls
    /\ \E clickRaises \in BOOLEAN :
          LET res == navigate_next(page, next_page_attempts, clickRaises)
          IN  /\ nav' = [ret |-> res.ret, path |-> res.path, target |-> res.target]
              /\ next_page_attempts' = res.attempts
              /\ IF res.clicked THEN page' \in Pages ELSE page' = page
    /\ navCalls' = navCalls + 1

NextNav == NavigateNext


(***************************************************************************)
(* ReasoningAgent: element-based extraction.                               *)
(* An element handle is [kind, id, y]: id is its position among the        *)
(* elements of its kind in document order, y is location['y'].             *)
(***************************************************************************)
Element(kind, i, y) == [kind |-> kind, id |-> i, y |-> y]

\* the element list find_elements returns for a kind, given the y positions
ElementsOf(kind, ys) == [i \in 1..Len(ys) |-> Element(kind, i, ys[i])]

abs(x) == IF x < 0 THEN 0 - x ELSE x

\* vertical distance below which an element joins its predecessor's group
GroupThreshold == 50

(***************************************************************************)
(* ReasoningAgent._group_elements_by_question                              *)
(***************************************************************************)
\* variant whose proximity test includes the threshold
RECURSIVE group_loop_inclusive(_, _, _, _)
group_loop_inclusive(elements, i, groups, current_group) ==
    IF i > Len(elements)
    THEN IF current_group # <<>> THEN Append(groups, current_group) ELSE groups
    ELSE IF abs(elements[i].y - elements[i - 1].y) <= GroupThreshold
         THEN group_loop_inclusive(elements, i + 1, groups,
                                   Append(current_group, elements[i]))
         ELSE group_loop_inclusive(elements, i + 1,
                                   IF current_group # <<>> THEN Append(groups, current_group)
                                   ELSE groups,
                                   <<elements[i]>>)

\* the loop of lines 420-428 followed by lines 431-434
RECURSIVE group_loop(_, _, _, _)
group_loop(elements, i, groups, current_group) ==
    IF i > Len(elements)
    THEN IF current_group # <<>> THEN Append(groups, current_group) ELSE groups
    ELSE IF abs(elements[i].y - elements[i - 1].y) < GroupThreshold
         THEN group_loop(elements, i + 1, groups, Append(current_group, elements[i]))
         ELSE group_loop(elements, i + 1,
                         IF current_group # <<>> THEN Append(groups, current_group)
                         ELSE groups,
                         <<elements[i]>>)

\* variant that returns without adding the last group
RECURSIVE group_loop_drop_last(_, _, _, _)
group_loop_drop_last(elements, i, groups, current_group) ==
    IF i > Len(elements) THEN groups
    ELSE IF abs(elements[i].y - elements[i - 1].y) < GroupThreshold
         THEN group_loop_drop_last(elements, i + 1, groups,
                                   Append(current_group, elements[i]))
         ELSE group_loop_drop_last(elements, i + 1, Append(groups, current_group),
                                   <<elements[i]>>)

group_elements_by_question_drop_last(elements, locationRaises) ==
    IF elements = <<>> THEN <<>>
    ELSE IF locationRaises THEN <<elements>>
    ELSE group_loop_drop_last(elements, 2, <<>>, <<elements[1]>>)

\* locationRaises: reading element.location raises inside the try block
group_elements_by_question(elements, locationRaises) ==
    IF elements = <<>> THEN <<>>
    ELSE IF locationRaises THEN <<elements>>
    ELSE group_loop(elements, 2, <<>>, <<elements[1]>>)

(***************************************************************************)
(* ReasoningAgent._get_option_text: the text the page shows for the        *)
(* element, "Option" when it shows none; never empty.  The string is named *)
(* after the element it belongs to.                                        *)
(***************************************************************************)
get_option_text(opt) == <<"Option", opt.kind, opt.id>>

(***************************************************************************)
(* ReasoningAgent._find_label_for_element or the positional label          *)
(***************************************************************************)
LabelOr(d, prefix, i) == IF d.labels THEN <<"Label">> ELSE <<prefix, i>>

(***************************************************************************)
(* ReasoningAgent._extract_questions_by_elements                           *)
(***************************************************************************)
SingleElementQuestions(d, elems, type, prefix) ==
    [i \in 1..Len(elems) |->
        [text |-> LabelOr(d, prefix, i), type |-> type,
         options |-> <<>>, elements |-> <<elems[i]>>]]

RECURSIVE GroupQuestions(_, _, _, _, _)
GroupQuestions(d, groups, i, type, prefix) ==
    IF i > Len(groups) THEN <<>>
    ELSE (IF groups[i] # <<>>
          THEN <<[text |-> LabelOr(d, prefix, i), type |-> type,
                  options |-> [j \in 1..Len(groups[i]) |-> get_option_text(groups[i][j])],
                  elements |-> groups[i]]>>
          ELSE <<>>)
         \o GroupQuestions(d, groups, i + 1, type, prefix)

DropdownQuestions(d, dropdowns, options) ==
    [i \in 1..Len(dropdowns) |->
        [text |-> LabelOr(d, "Dropdown Question", i), type |-> DROPDOWN,
         options |-> [j \in 1..Len(options) |-> get_option_text(options[j])],
         elements |-> <<dropdowns[i]>>]]

extract_questions_by_elements(d) ==
    LET text_inputs      == ElementsOf("input", d.text_inputs)
        text_areas       == ElementsOf("textarea", d.text_areas)
        radio_options    == ElementsOf("radio", d.radios)
        checkbox_options == ElementsOf("checkbox", d.checkboxes)
        dropdowns        == ElementsOf("listbox", d.dropdowns)
        options          == ElementsOf("option", d.dropdown_options)
    IN  SingleElementQuestions(d, text_inputs, TEXT, "Text Question")
        \o SingleElementQuestions(d, text_areas, PARAGRAPH, "Paragraph Question")
        \o GroupQuestions(d, group_elements_by_question(radio_options, d.locationRaises),
                          1, MULTIPLE_CHOICE, "Multiple Choice Question")
        \o GroupQuestions(d, group_elements_by_question(checkbox_options, d.locationRaises),
                          1, CHECKBOX, "Checkbox Question")
        \o DropdownQuestions(d, dropdowns, options)

(***************************************************************************)
(* Pages for the element-based extraction                                  *)
(***************************************************************************)
Ys == {0, 30, 50, 60, 110}

Doms ==
    [text_inputs : SeqsUpTo({0}, MaxInputs),
     text_areas : SeqsUpTo({0}, MaxInputs),
     radios : SeqsUpTo(Ys, MaxRadios),
     checkboxes : SeqsUpTo({0, 60}, MaxChecks),
     dropdowns : SeqsUpTo({0}, 1),
     dropdown_options : SeqsUpTo({0}, MaxDropOpts),
     labels : BOOLEAN,
     locationRaises : BOOLEAN]

(***************************************************************************)
(* Specification of the element-based extraction: one call on an           *)
(* arbitrary page.                                                         *)
(***************************************************************************)
InitExtract ==
    /\ dom \in Doms
    /\ extracted = <<>>
    /\ radio_groups = <<>>
    /\ epc = "idle"

ExtractQuestionsByElements ==
    /\ epc = "idle"
    /\ extracted' = extract_questions_by_elements(dom)
    /\ radio_groups' = group_elements_by_question(ElementsOf("radio", dom.radios),
                                                  dom.locationRaises)
    /\ epc' = "done"
    /\ UNCHANGED dom

NextExtract == ExtractQuestionsByElements

(***************************************************************************)
(* Properties of the element-based extraction                              *)
(***************************************************************************)
\* the multiple_choice questions of a question list, in order
RECURSIVE OfType(_, _)
OfType(qs, type) ==
    IF qs = <<>> THEN <<>>
    ELSE (IF Head(qs).type = type THEN <<Head(qs)>> ELSE <<>>) \o OfType(Tail(qs), type)

RadioCount == Len(dom.radios)

\* every two radio elements differ by at most d pixels / by less than d pixels
RadiosWithin(d) ==
    \A i, j \in 1..RadioCount : abs(dom.radios[i] - dom.radios[j]) <= d

RadiosCloserThan(d) ==
    \A i, j \in 1..RadioCount : abs(dom.radios[i] - dom.radios[j]) < d

OneChoiceQuestionOfAllRadios ==
    LET mc == OfType(extracted, MULTIPLE_CHOICE)
    IN  /\ Len(mc) = 1
        /\ Len(mc[1].options) = RadioCount
        /\ Len(mc[1].elements) = RadioCount

\* C8 as stated: k >= 1 raw radio elements within 50 vertical pixels of each
\* other yield exactly one multiple_choice question with k options.
C8_RadiosWithin50OneQuestion ==
    (epc = "done" /\ RadioCount >= 1 /\ RadiosWithin(50)) => OneChoiceQuestionOfAllRadios

\* C8 amended: k >= 1 raw radio elements of which every two are less than 50
\* vertical pixels apart yield exactly one multiple_choice question with k
\* options.
C8_RadiosCloserThan50OneQuestion ==
    (epc = "done" /\ RadioCount >= 1 /\ RadiosCloserThan(50)) => OneChoiceQuestionOfAllRadios

\* three radio elements at different heights, all less than 50 pixels apart
C8_Witness ==
    /\ epc = "done"
    /\ dom.radios = <<30, 60, 50>>
    /\ ~dom.locationRaises
    /\ Len(OfType(extracted, MULTIPLE_CHOICE)) = 1
    /\ Len(OfType(extracted, MULTIPLE_CHOICE)[1].options) = 3

RECURSIVE Concat(_)
Concat(groups) == IF groups = <<>> THEN <<>> ELSE Head(groups) \o Concat(Tail(groups))

\* the positions in the concatenation at which a group ends
GroupEnds(groups) == {Len(Concat(SubSeq(groups, 1, k))) : k \in 1..Len(groups)}

\* no group is empty and the groups, in order, make up the input list
IsPartition(groups, elements) ==
    /\ \A k \in 1..Len(groups) : groups[k] # <<>>
    /\ Concat(groups) = elements

\* the elements at positions i and i + 1 share a group if and only if their
\* vertical positions differ by less than 50 pixels
GroupedByProximity(groups, elements) ==
    \A i \in 1..(Len(elements) - 1) :
        (i \notin GroupEnds(groups)) <=> (abs(elements[i + 1].y - elements[i].y) < 50)

RadioElements == ElementsOf("radio", dom.radios)

\* C30 as stated: for a non-empty input the groups returned are a partition
\* of the input in order, and two consecutive elements share a group if and
\* only if they are less than 50 pixels apart, also when reading a position
\* raised and the whole input came back as one group.
C30_PartitionByProximityOnEveryPath ==
    (epc = "done" /\ RadioCount >= 1)
        => /\ IsPartition(radio_groups, RadioElements)
           /\ GroupedByProximity(radio_groups, RadioElements)

\* C30 amended: for a non-empty input the groups returned are a partition of
\* the input in order on every path; two consecutive elements share a group
\* if and only if they are less than 50 pixels apart when every position
\* could be read, and the error path returns the whole input as one group.
C30_PartitionAndProximityWhenRead ==
    (epc = "done" /\ RadioCount >= 1)
        => /\ IsPartition(radio_groups, RadioElements)
           /\ ~dom.locationRaises => GroupedByProximity(radio_groups, RadioElements)
           /\ dom.locationRaises => radio_groups = <<RadioElements>>

\* three radios, the third 50 pixels below the second: two groups
C30_Witness ==
    /\ epc = "done"
    /\ ~dom.locationRaises
    /\ dom.radios = <<30, 60, 110>>
    /\ radio_groups = <<SubSeq(RadioElements, 1, 2), SubSeq(RadioElements, 3, 3)>>

(***************************************************************************)
(* ReasoningAgent._classify_question.  c gives, for every control kind,    *)
(* how many elements find_elements returns under the question container,   *)
(* and how many option-role elements.                                      *)
(***************************************************************************)
Classified(type, elements, options) ==
    [type |-> type, elements |-> elements, options |-> options]

Found(c, kind) == ElementsOf(kind, [i \in 1..c[kind] |-> 0])

\* variant that leaves out the text of the last element
OptionTexts_without_last(elements) ==
    [i \in 1..(Len(elements) - 1) |-> get_option_text(elements[i])]

OptionTexts(elements) == [i \in 1..Len(elements) |-> get_option_text(elements[i])]

\* variant that probes for radio buttons before text inputs
classify_question_radio_first(c) ==
    IF c["radio"] > 0
    THEN Classified(MULTIPLE_CHOICE, Found(c, "radio"), OptionTexts(Found(c, "radio")))
    ELSE IF c["input"] > 0 THEN Classified(TEXT, Found(c, "input"), <<>>)
    ELSE IF c["textarea"] > 0 THEN Classified(PARAGRAPH, Found(c, "textarea"), <<>>)
    ELSE IF c["checkbox"] > 0
    THEN Classified(CHECKBOX, Found(c, "checkbox"), OptionTexts(Found(c, "checkbox")))
    ELSE IF c["listbox"] > 0
    THEN Classified(DROPDOWN, Found(c, "listbox"), OptionTexts(Found(c, "option")))
    ELSE Classified(UNKNOWN, <<>>, <<>>)

classify_question(c) ==
    LET text_inputs   == Found(c, "input")
        textareas     == Found(c, "textarea")
        radio_buttons == Found(c, "radio")
        checkboxes    == Found(c, "checkbox")
        dropdowns     == Found(c, "listbox")
    IN  IF text_inputs # <<>> THEN Classified(TEXT, text_inputs, <<>>)
        ELSE IF textareas # <<>> THEN Classified(PARAGRAPH, textareas, <<>>)
        ELSE IF radio_buttons # <<>>
        THEN Classified(MULTIPLE_CHOICE, radio_buttons, OptionTexts(radio_buttons))
        ELSE IF checkboxes # <<>>
        THEN Classified(CHECKBOX, checkboxes, OptionTexts(checkboxes))
        ELSE IF dropdowns # <<>>
        THEN Classified(DROPDOWN, dropdowns, OptionTexts(Found(c, "option")))
        ELSE Classified(UNKNOWN, <<>>, <<>>)

ControlKinds == {"input", "textarea", "radio", "checkbox", "listbox"}

Containers ==
    {c \in [ControlKinds \cup {"option"} -> 0..MaxControls] : c["option"] <= MaxDropOpts}

NoClassified == Classified(UNKNOWN, <<>>, <<>>)

(***************************************************************************)
(* Specification of the classification: one call on an arbitrary container *)
(***************************************************************************)
InitClassify ==
    /\ container \in Containers
    /\ classified = NoClassified
    /\ cpc = "idle"

ClassifyQuestion ==
    /\ cpc = "idle"
    /\ classified' = classify_question(container)
    /\ cpc' = "done"
    /\ UNCHANGED container

NextClassify == ClassifyQuestion

(***************************************************************************)
(* Properties of the classification                                        *)
(***************************************************************************)
\* the probing order of the claim, with the type each kind stands for
ProbeOrder == <<"input", "textarea", "radio", "checkbox", "listbox">>

ProbeType == <<TEXT, PARAGRAPH, MULTIPLE_CHOICE, CHECKBOX, DROPDOWN>>

Present(i) == container[ProbeOrder[i]] > 0

FormFillerParams == {"browser_handler", "cohere_api_key", "config"}

\* the keyword names used by callers in the repository
Keywords == FormFillerParams \cup {"form_url", "headless"}

Built(raised, browserOps, generatorOps) ==
    [raised |-> raised, browserOps |-> browserOps, generatorOps |-> generatorOps]

\* the value a parameter has in the body: the one passed, or the default None
Passed(kw, name) == name \in DOMAIN kw /\ kw[name]

\* binding the keywords to the parameters of line 24-27
binding_raises(kw) == DOMAIN kw \ FormFillerParams # {}

\* lines 24-52
FormFiller_init(kw, env) ==
    IF binding_raises(kw) THEN Built("TypeError", 0, 0)
    ELSE LET startsBrowser == ~Passed(kw, "browser_handler")       \* line 40
             browserOps    == IF startsBrowser THEN 1 ELSE 0
         IN  IF startsBrowser /\ env.driverRaises
             THEN Built("WebDriverException", browserOps, 0)
             \* line 44: AnswerAgent.__init__, answer_agent.py lines 29-35
             ELSE IF ~Passed(kw, "cohere_api_key") /\ ~env.configKey
             THEN Built("ValueError", browserOps, 0)
             ELSE Built("none", browserOps, 0)

KeywordArgs == UNION {[names -> BOOLEAN] : names \in SUBSET Keywords}

NoBuilt == Built("none", 0, 0)

(***************************************************************************)
(* Specification of the construction: one constructor call with arbitrary  *)
(* keyword arguments.                                                      *)
(***************************************************************************)
InitConstruct ==
    /\ kwargs \in KeywordArgs
    /\ kenv \in [configKey : BOOLEAN, driverRaises : BOOLEAN]
    /\ built = NoBuilt
    /\ kpc = "idle"

Construct ==
    /\ kpc = "idle"
    /\ built' = FormFiller_init(kwargs, kenv)
    /\ kpc' = "done"
    /\ UNCHANGED <<kwargs, kenv>>

NextConstruct == Construct

(***************************************************************************)
(* Properties of the construction                                          *)
(***************************************************************************)
\* the call of src/tests/test_basic.py lines 21-26 and src/example.py lines 31-35
TestCall == DOMAIN kwargs = {"form_url", "cohere_api_key", "headless"}
            /\ \A name \in DOMAIN kwargs : kwargs[name]

\* C23: constructing FormFiller with the keyword arguments form_url,
\* cohere_api_key and headless returns without raising and performs no
\* browser and no generator operation.
C23_TestConstructionSucceeds ==
    (kpc = "done" /\ TestCall)
        => /\ built.raised = "none"
           /\ built.browserOps = 0
           /\ built.generatorOps = 0

(***************************************************************************)
(* main.py: main().  margs.api_key says whether --api-key or the           *)
(* environment gave a key.  Each round of the loop ends in one of          *)
(*   "true"    fill_form returned True                                     *)
(*   "false"   fill_form returned False                                    *)
(*   "raised"  BrowserHandler(...) or FormFiller(...) raised               *)
(* main is checked for either value fill_form may return.  What follows   *)
(* the counting in a round (close, the sleep between rounds) changes       *)
(* neither the counter nor the loop: an exception there is logged by the   *)
(* handler of lines 158-160 and the next round begins.                     *)
(***************************************************************************)
\* variant of lines 168-170 that reports success whatever the counter says
exit_code_of_always_zero(successful) == 0

\* lines 168-170
exit_code_of(successful) == IF successful = 0 THEN 1 ELSE 0

MainArgs == [api_key : BOOLEAN, submissions : (0 - 1)..MaxSubmissions]

InitMain ==
    /\ margs \in MainArgs
    /\ outcomes = <<>>
    /\ successful_submissions = 0
    /\ exit_code = 0 - 1
    /\ mpc = "start"

\* lines 96-112: the key test; os.makedirs outside any handler
MainStart ==
    /\ mpc = "start"
    /\ IF ~margs.api_key
       THEN exit_code' = 1 /\ mpc' = "exited"
       ELSE \E makedirsRaises \in BOOLEAN :
               IF makedirsRaises
               THEN exit_code' = 1 /\ mpc' = "exited"   \* uncaught exception
               ELSE exit_code' = exit_code /\ mpc' = "loop"
    /\ UNCHANGED <<margs, outcomes, successful_submissions>>

\* lines 121-160: one round of for i in range(args.submissions)
Submission ==
    /\ mpc = "loop"
    /\ Len(outcomes) < margs.submissions
    /\ \E outcome \in {"true", "false", "raised"} :
          /\ outcomes' = Append(outcomes, outcome)
          /\ successful_submissions' =
                IF outcome = "true" THEN successful_submissions + 1
                ELSE successful_submissions
    /\ UNCHANGED <<margs, exit_code, mpc>>

\* lines 162-170: the loop is exhausted
MainReturn ==
    /\ mpc = "loop"
    /\ Len(outcomes) >= margs.submissions
    /\ exit_code' = exit_code_of(successful_submissions)
    /\ mpc' = "exited"
    /\ UNCHANGED <<margs, outcomes, successful_submissions>>

NextMain == MainStart \/ Submission \/ MainReturn

(***************************************************************************)
(* Properties of main                                                      *)
(***************************************************************************)
SomeSubmissionSucceeded == \E i \in 1..Len(outcomes) : outcomes[i] = "true"

\* C16: the exit code is 0 if and only if at least one of the requested
\* submissions ran fill_form to a successful completion; it is non-zero when
\* every submission failed or raised, when the API key is missing and when
\* zero submissions were requested.
C16_ExitCodeZeroIffSuccess ==
    mpc = "exited" =>
        /\ (exit_code = 0) <=> SomeSubmissionSucceeded
        /\ ~margs.api_key => exit_code # 0
        /\ margs.submissions <= 0 => exit_code # 0

\* two submissions were requested, one failed and one raised
C16_Witness ==
    /\ mpc = "exited"
    /\ margs.api_key
    /\ margs.submissions = 2
    /\ outcomes = <<"false", "raised">>
    /\ exit_code = 1

(***************************************************************************)
(* ElementFinder.click_element: the native click, then the script click.   *)
(* env.nativeFails and env.scriptFails are the elements on which the       *)
(* respective click raises.  The result holds the value returned, whether  *)
(* the call raised, and the clicks attempted, in order.                    *)
(***************************************************************************)
ClickRun(ret, raised, attempts) == [ret |-> ret, raised |-> raised, attempts |-> attempts]

\* variant without the script-based second attempt
click_element_run_native_only(element, env) ==
    IF element \notin env.nativeFails THEN ClickRun(TRUE, FALSE, <<"native">>)
    ELSE ClickRun(FALSE, FALSE, <<"native">>)

click_element_run(element, env) ==
    IF element \notin env.nativeFails THEN ClickRun(TRUE, FALSE, <<"native">>)
    ELSE IF element \notin env.scriptFails
         THEN ClickRun(TRUE, FALSE, <<"native", "script">>)
         ELSE ClickRun(FALSE, FALSE, <<"native", "script">>)

click_element(element, env) == click_element_run(element, env).ret

(***************************************************************************)
(* BrowserHandler.fill_answer.  env.typeRaises: clearing or typing into    *)
(* the text element raises; env.fresh: the option elements found after     *)
(* the dropdown was opened.  The result holds the value returned, whether  *)
(* the call raised, and the elements click_element was called on.          *)
(***************************************************************************)
FillRun(ret, raised, clicks) == [ret |-> ret, raised |-> raised, clicks |-> clicks]

\* variant of the range test without the lower limit
in_range_upper_only(idx, n) == idx < n

\* 0 <= idx < len(...), lines 212, 224 and 248
in_range(idx, n) == 0 <= idx /\ idx < n

\* Python's seq[idx]: a negative idx counts from the end; IndexError is
\* raised when idx designates no element
index_error(seq, idx) == ~(0 - Len(seq) <= idx /\ idx < Len(seq))

py_index(seq, idx) == IF idx >= 0 THEN seq[idx + 1] ELSE seq[Len(seq) + idx + 1]

\* variant of the checkbox loop that stops clicking after a failure
keep_clicking_while_ok(success) == success

\* lines 223-229: the for loop has no break; it goes on whatever success is
keep_clicking(success) == TRUE

\* lines 222-230: the loop over the indices from position i on
RECURSIVE click_all_run(_, _, _, _, _, _)
click_all_run(elements, indices, i, env, success, clicks) ==
    IF i > Len(indices) \/ ~keep_clicking(success) THEN FillRun(success, FALSE, clicks)
    ELSE LET idx == indices[i]
         IN  IF in_range(idx, Len(elements))
             THEN IF index_error(elements, idx) THEN FillRun(FALSE, TRUE, clicks)
                  ELSE LET element == py_index(elements, idx)
                       IN  click_all_run(elements, indices, i + 1, env,
                                         success /\ click_element(element, env),
                                         Append(clicks, element))
             ELSE click_all_run(elements, indices, i + 1, env, FALSE, clicks)

\* the single click of the multiple_choice and dropdown branches
click_at(seq, idx, env, clicks) ==
    IF index_error(seq, idx) THEN FillRun(FALSE, TRUE, clicks)
    ELSE LET element == py_index(seq, idx)
         IN  FillRun(click_element(element, env), FALSE, Append(clicks, element))

\* variant that takes the options cached in the question at extraction
find_option_elements_cached(q, env) == ElementsOf("option", [i \in 1..Len(q.options) |-> 0])

\* line 247: the option elements found once the dropdown was opened
find_option_elements(q, env) == env.fresh

\* lines 183-260: the body of the try block
fill_answer_try(q, ans, env) ==
    LET elements == q.elements
    IN  IF elements = <<>> THEN FillRun(FALSE, FALSE, <<>>)
        ELSE IF q.type = TEXT \/ q.type = PARAGRAPH
             THEN IF env.typeRaises THEN FillRun(FALSE, TRUE, <<>>)
                  ELSE FillRun(TRUE, FALSE, <<>>)
        ELSE IF q.type = MULTIPLE_CHOICE
             THEN IF ans.kind = "int" /\ in_range(ans.int, Len(elements))
                  THEN click_at(elements, ans.int, env, <<>>)
                  ELSE FillRun(FALSE, FALSE, <<>>)
        ELSE IF q.type = CHECKBOX
             THEN IF ans.kind = "list"
                  THEN click_all_run(elements, ans.list, 1, env, TRUE, <<>>)
                  ELSE IF ans.kind = "strlist"
                       \* a list of strings: 0 <= idx raises TypeError in the first round
                       THEN IF ans.strlist = <<>> THEN FillRun(TRUE, FALSE, <<>>)
                            ELSE FillRun(FALSE, TRUE, <<>>)
                  ELSE FillRun(FALSE, FALSE, <<>>)
        ELSE IF q.type = DROPDOWN
             THEN IF ans.kind = "int"
                  THEN IF ~click_element(elements[1], env)
                       THEN FillRun(FALSE, FALSE, <<elements[1]>>)
                       ELSE LET dropdown_options == find_option_elements(q, env)
                            IN  IF dropdown_options # <<>>
                                   /\ in_range(ans.int, Len(dropdown_options))
                                THEN click_at(dropdown_options, ans.int, env, <<elements[1]>>)
                                ELSE FillRun(FALSE, FALSE, <<elements[1]>>)
                  ELSE FillRun(FALSE, FALSE, <<>>)
        ELSE FillRun(FALSE, FALSE, <<>>)

\* lines 182-265: the try block with its handler, which returns False
fill_answer_run(q, ans, env) ==
    LET body == fill_answer_try(q, ans, env)
    IN  IF body.raised THEN FillRun(FALSE, FALSE, body.clicks) ELSE body

fill_answer(q, ans, env) == fill_answer_run(q, ans, env).ret

\* the driver behaviours during one fill_answer call on question q
FillEnvs(q) ==
    LET fresh == {ElementsOf("option", [i \in 1..n |-> 0]) : n \in 0..MaxDropOpts}
    IN  UNION {[typeRaises : BOOLEAN,
                nativeFails : SUBSET (Range(q.elements) \cup Range(f)),
                scriptFails : SUBSET (Range(q.elements) \cup Range(f)),
                fresh : {f}] :
               f \in IF q.type = DROPDOWN THEN fresh ELSE {<<>>}}

(***************************************************************************)
(* Specification of the element interaction: one call of fill_answer, or   *)
(* of click_element on one of the question's elements, with an arbitrary   *)
(* question, an arbitrary answer value and an arbitrary driver behaviour.  *)
(***************************************************************************)
DriverQuestion(t, kind, m) ==
    [text |-> <<"Label">>, type |-> t, options |-> Options(m),
     elements |-> ElementsOf(kind, [i \in 1..m |-> 0])]

DriverQuestions ==
    {DriverQuestion(TEXT, "input", m) : m \in 0..1}
    \cup {DriverQuestion(PARAGRAPH, "textarea", m) : m \in 0..1}
    \cup {DriverQuestion(MULTIPLE_CHOICE, "radio", m) : m \in 0..MaxElements}
    \cup {DriverQuestion(CHECKBOX, "checkbox", m) : m \in 0..MaxElements}
    \cup {DriverQuestion(DROPDOWN, "listbox", m) : m \in 0..1}
    \cup {DriverQuestion(UNKNOWN, "none", 0)}

DriverAnswers ==
    {StrAns(<<"a">>), StrListAns(<<"a">>)}
    \cup {IntAns(i) : i \in (0 - 2)..(MaxElements + 1)}
    \cup {ListAns(l) : l \in SeqsUpTo((0 - 1)..MaxElements, MaxPicks)}

DriverRun(op, target, ret, raised, attempts, clicks) ==
    [op |-> op, target |-> target, ret |-> ret, raised |-> raised,
     attempts |-> attempts, clicks |-> clicks]

NoDriverRun == DriverRun("none", 0, FALSE, FALSE, <<>>, <<>>)

NoEnv == [typeRaises |-> FALSE, nativeFails |-> {}, scriptFails |-> {}, fresh |-> <<>>]

InitDriver ==
    /\ dq \in DriverQuestions
    /\ dans \in DriverAnswers
    /\ denv = NoEnv
    /\ dres = NoDriverRun
    /\ dpc = "idle"

FillAnswer ==
    /\ dpc = "idle"
    /\ \E env \in FillEnvs(dq) :
          LET run == fill_answer_run(dq, dans, env)
          IN  /\ dres' = DriverRun("fill", 0, run.ret, run.raised, <<>>, run.clicks)
              /\ denv' = env
    /\ dpc' = "done"
    /\ UNCHANGED <<dq, dans>>

ClickElement ==
    /\ dpc = "idle"
    /\ \E t \in 1..Len(dq.elements), env \in FillEnvs(dq) :
          LET run == click_element_run(dq.elements[t], env)
          IN  /\ dres' = DriverRun("click", t, run.ret, run.raised, run.attempts,
                                   <<dq.elements[t]>>)
              /\ denv' = env
    /\ dpc' = "done"
    /\ UNCHANGED <<dq, dans>>

NextDriver == FillAnswer \/ ClickElement

(***************************************************************************)
(* Properties of the element interaction                                   *)
(***************************************************************************)
NativeWorks(element) == element \notin denv.nativeFails
ScriptWorks(element) == element \notin denv.scriptFails

\* C17: click_element makes the native click first, makes the script click
\* only when the native click failed, returns True when one of the two
\* succeeded and False when both failed, and does not raise.
C17_ClickNativeThenScript ==
    (dpc = "done" /\ dres.op = "click") =>
        LET element == dq.elements[dres.target]
        IN  /\ ~dres.raised
            /\ dres.attempts[1] = "native"
            /\ dres.attempts = (IF NativeWorks(element) THEN <<"native">>
                                ELSE <<"native", "script">>)
            /\ dres.ret <=> (NativeWorks(element) \/ ScriptWorks(element))

\* the native click failed and the script click went through
C17_Witness ==
    /\ dpc = "done"
    /\ dres.op = "click"
    /\ ~NativeWorks(dq.elements[dres.target])
    /\ ScriptWorks(dq.elements[dres.target])
    /\ dres.attempts = <<"native", "script">>
    /\ dres.ret

InRange(idx, seq) == 0 <= idx /\ idx < Len(seq)

\* the elements the in-range indices of a list designate, in the list's order
RECURSIVE Designated(_, _)
Designated(seq, indices) ==
    IF indices = <<>> THEN <<>>
    ELSE (IF InRange(Head(indices), seq) THEN <<seq[Head(indices) + 1]>> ELSE <<>>)
         \o Designated(seq, Tail(indices))

CheckboxOutcome ==
    /\ dres.clicks = Designated(dq.elements, dans.list)
    /\ dres.ret <=>
          \A i \in 1..Len(dans.list) :
              /\ InRange(dans.list[i], dq.elements)
              /\ (NativeWorks(dq.elements[dans.list[i] + 1])
                  \/ ScriptWorks(dq.elements[dans.list[i] + 1]))

CheckboxFill == dpc = "done" /\ dres.op = "fill" /\ dq.type = CHECKBOX /\ dans.kind = "list"

\* C18: for a checkbox question fill_answer attempts a click for every
\* in-range index of the answer, also after a failed click, and returns True
\* if and only if every index was in range and every click succeeded.  A
\* checkbox question holds the checkbox elements it was built from
\* (reasoning_agent.py lines 223-227 and 145-163), at least one.
C18_CheckboxClicksAll ==
    (CheckboxFill /\ dq.elements # <<>>) => CheckboxOutcome

\* both clicks on the first element fail and the second element is clicked
\* all the same
C18_Witness ==
    /\ CheckboxFill
    /\ dans = ListAns(<<0, 1>>)
    /\ Len(dq.elements) >= 2
    /\ ~NativeWorks(dq.elements[1]) /\ ~ScriptWorks(dq.elements[1])
    /\ NativeWorks(dq.elements[2])
    /\ dres.clicks = <<dq.elements[1], dq.elements[2]>>
    /\ ~dres.ret

\* the sequence an index answer points into: the option elements found after
\* opening for a dropdown, the question's elements otherwise
Indexed == IF dq.type = DROPDOWN THEN denv.fresh ELSE dq.elements

\* C19: for every question and every answer value fill_answer returns a
\* boolean and does not raise; an index out of range yields False, and no
\* element is clicked for it.
C19_FillAnswerTotal ==
    (dpc = "done" /\ dres.op = "fill") =>
        /\ ~dres.raised
        /\ dres.ret \in BOOLEAN
        /\ (dq.type \in {MULTIPLE_CHOICE, DROPDOWN} /\ dans.kind = "int"
                /\ ~InRange(dans.int, Indexed))
            => /\ dres.ret = FALSE
               /\ \A k \in 1..Len(dres.clicks) : dres.clicks[k] \notin Range(Indexed)
        /\ (dq.type = CHECKBOX /\ dans.kind = "list"
                /\ \E i \in 1..Len(dans.list) : ~InRange(dans.list[i], Indexed))
            => /\ dres.ret = FALSE
               /\ dres.clicks = Designated(Indexed, dans.list)

\* a negative index for a multiple_choice question with three elements
C19_Witness ==
    /\ dpc = "done"
    /\ dres.op = "fill"
    /\ dq.type = MULTIPLE_CHOICE
    /\ Len(dq.elements) = 3
    /\ dans = IntAns(0 - 1)
    /\ dres.ret = FALSE
    /\ dres.clicks = <<>>

DropdownFill ==
    /\ dpc = "done" /\ dres.op = "fill"
    /\ dq.type = DROPDOWN /\ dans.kind = "int" /\ dq.elements # <<>>

ClickWorks(element) == NativeWorks(element) \/ ScriptWorks(element)

\* C26: for a dropdown question fill_answer first clicks the control; when
\* that click fails it returns False and clicks no option; otherwise it tests
\* the index against the option elements found after the opening, not
\* against the options cached in the question, and clicks the element at
\* that index among them, returning what that click returned.
C26_DropdownOpensThenPicksFresh ==
    DropdownFill =>
        LET opener == dq.elements[1]
        IN  /\ dres.clicks # <<>>
            /\ dres.clicks[1] = opener
            /\ ~ClickWorks(opener) => (dres.clicks = <<opener>> /\ ~dres.ret)
            /\ (ClickWorks(opener) /\ InRange(dans.int, denv.fresh))
                   => /\ dres.clicks = <<opener, denv.fresh[dans.int + 1]>>
                      /\ dres.ret <=> ClickWorks(denv.fresh[dans.int + 1])
            /\ (ClickWorks(opener) /\ ~InRange(dans.int, denv.fresh))
                   => (dres.clicks = <<opener>> /\ ~dres.ret)

\* one option was cached at extraction, two are found after the opening, and
\* the second of them is clicked
C26_Witness ==
    /\ DropdownFill
    /\ Len(dq.options) = 1
    /\ Len(denv.fresh) = 2
    /\ dans = IntAns(1)
    /\ dres.clicks = <<dq.elements[1], denv.fresh[2]>>
    /\ dres.ret

(***************************************************************************)
(* ReasoningAgent.extract_questions.  question_texts is the list           *)
(* get_question_texts returns; each label element has                     *)
(*   text      the value of its text attribute                             *)
(*   raises    reading the text or classifying raises inside the try block *)
(*   controls  the controls found under the label's container              *)
(* d is the page as the element-based scan finds it.  The result holds the *)
(* list returned and whether the element-based scan was run.               *)
(***************************************************************************)
ScanRun(questions, secondary) == [questions |-> questions, secondary |-> secondary]

\* lines 58-81: the loop over the label elements from position i on
RECURSIVE primary_scan(_, _)
primary_scan(labels, i) ==
    IF i > Len(labels) THEN <<>>
    ELSE LET question_text_elem == labels[i]
             question_text      == strip(question_text_elem.text)
             c                  == classify_question(question_text_elem.controls)
         IN  (IF question_text_elem.raises \/ question_text = <<>> THEN <<>>
              ELSE <<[text |-> question_text, type |-> c.type,
                      options |-> c.options, elements |-> c.elements]>>)
             \o primary_scan(labels, i + 1)

\* lines 50-83
extract_questions_run(labels, d) ==
    IF labels = <<>> THEN ScanRun(extract_questions_by_elements(d), TRUE)
    ELSE ScanRun(primary_scan(labels, 1), FALSE)

extract_questions(labels, d) == extract_questions_run(labels, d).questions

(***************************************************************************)
(* Pages for extract_questions                                             *)
(***************************************************************************)
ControlsOf(kind, n, opts) ==
    [k \in ControlKinds \cup {"option"} |->
        IF k = kind THEN n ELSE IF k = "option" THEN opts ELSE 0]

NoControls == ControlsOf("none", 0, 0)

LabelElement(text, raises, controls) ==
    [text |-> text, raises |-> raises, controls |-> controls]

\* the containers of the label elements: one control kind each, or none
LabelControls ==
    {NoControls, ControlsOf("input", 1, 0), ControlsOf("textarea", 1, 0)}
    \cup {ControlsOf(kind, n, 0) : kind \in {"radio", "checkbox"}, n \in 1..MaxControls}
    \cup {ControlsOf("listbox", 1, opts) : opts \in 0..MaxDropOpts}

LabelElements ==
    {LabelElement(<<>>, FALSE, NoControls),
     LabelElement(<<Blank>>, FALSE, ControlsOf("radio", 1, 0)),
     LabelElement(<<"Q", Blank>>, TRUE, NoControls)}
    \cup {LabelElement(<<"Q", Blank>>, FALSE, c) : c \in LabelControls}

ScanDoms ==
    [text_inputs : SeqsUpTo({0}, 1),
     text_areas : {<<>>},
     radios : {<<>>, <<0, 30, 60>>},
     checkboxes : {<<>>, <<0>>},
     dropdowns : SeqsUpTo({0}, 1),
     dropdown_options : SeqsUpTo({0}, MaxDropOpts),
     labels : {FALSE},
     locationRaises : {FALSE}]

NoScan == ScanRun(<<>>, FALSE)

(***************************************************************************)
(* Specification of the extraction: one call of extract_questions on an    *)
(* arbitrary page.                                                         *)
(***************************************************************************)
InitScan ==
    /\ question_texts \in SeqsUpTo(LabelElements, MaxLabels)
    /\ scanDom \in ScanDoms
    /\ scanned = NoScan
    /\ spc = "idle"

ExtractQuestions ==
    /\ spc = "idle"
    /\ scanned' = extract_questions_run(question_texts, scanDom)
    /\ spc' = "done"
    /\ UNCHANGED <<question_texts, scanDom>>

NextScan == ExtractQuestions

(***************************************************************************)
(* Properties of the extraction                                            *)
(***************************************************************************)
\* what the label-driven scan yields, what the element-based scan yields
PrimaryYield   == primary_scan(question_texts, 1)
SecondaryYield == extract_questions_by_elements(scanDom)

\* C21: the element-based scan is run exactly when the label-driven scan
\* yields no question, also when label elements exist and each of them has an
\* empty text or fails to classify; the list returned is the yield of one of
\* the two scans, never a mix.
C21_SecondaryIffPrimaryEmpty ==
    spc = "done" =>
        /\ scanned.secondary <=> (PrimaryYield = <<>>)
        /\ scanned.questions = (IF PrimaryYield = <<>> THEN SecondaryYield ELSE PrimaryYield)

\* C22: every question returned has a non-empty options list if and only if
\* its type is multiple_choice, checkbox or dropdown; no dropdown is returned
\* with an empty options list.
C22_OptionsIffSelectionType ==
    spc = "done" =>
        \A k \in 1..Len(scanned.questions) :
            (scanned.questions[k].options # <<>>) <=> (scanned.questions[k].type \in SelectionTypes)

\* C29: every multiple_choice and checkbox question returned, by either
\* scan, has as many options as elements, the option at each position is the
\* text of the element at that position, and so every index valid for the
\* options passes fill_answer's range test against the elements.
C29_OptionsMatchElements ==
    spc = "done" =>
        \A k \in 1..Len(scanned.questions) :
            LET q == scanned.questions[k]
            IN  q.type \in {MULTIPLE_CHOICE, CHECKBOX} =>
                   /\ Len(q.options) = Len(q.elements)
                   /\ \A i \in 1..Len(q.options) : q.options[i] = get_option_text(q.elements[i])
                   /\ \A idx \in 0..(Len(q.options) - 1) : in_range(idx, Len(q.elements))

\* the label-driven scan returned a question with several radio buttons
C29_Witness ==
    /\ spc = "done"
    /\ ~scanned.secondary
    /\ \E k \in 1..Len(scanned.questions) :
          /\ scanned.questions[k].type = MULTIPLE_CHOICE
          /\ Len(scanned.questions[k].elements) = MaxControls
          /\ Len(scanned.questions[k].options) = MaxControls

(***************************************************************************)
(* The methods NavigationAgent defines (navigation_agent.py).  fill_form   *)
(* calls determine_next_action, navigate_to_next_page and submit_form on   *)
(* the agent; looking up a name outside this set raises AttributeError.    *)
(***************************************************************************)
NavigationAgentMethods ==
    {"__init__", "navigate_next", "is_form_completed", "_find_button",
     "_wait_for_page_load", "_wait_for_form_completion"}

HasMethod(name) == name \in NavigationAgentMethods

(***************************************************************************)
(* Forms handed to the orchestrator.  A page is the question list that     *)
(* extract_questions returns on it.                                        *)
(***************************************************************************)
FormQuestion(t, n, kind, m) ==
    [text |-> <<"Label">>, type |-> t, options |-> Options(n),
     elements |-> ElementsOf(kind, [i \in 1..m |-> 0])]

ShortTextQ   == FormQuestion(TEXT, 0, "input", 1)
ChoiceQ(n)   == FormQuestion(MULTIPLE_CHOICE, n, "radio", n)
CheckboxQ(n) == FormQuestion(CHECKBOX, n, "checkbox", n)
DropdownQ(n) == FormQuestion(DROPDOWN, n, "listbox", 1)
UnknownQ     == FormQuestion(UNKNOWN, 0, "none", 0)

FormQuestions == {ShortTextQ, ChoiceQ(3), CheckboxQ(2), DropdownQ(2), UnknownQ}

FirstPages == SeqsUpTo(FormQuestions, MaxQuestions)

LaterPages == {<<>>, <<ShortTextQ>>}

Forms == {<<p1>> : p1 \in FirstPages} \cup {<<p1, p2>> : p1 \in FirstPages, p2 \in LaterPages}

(***************************************************************************)
(* FormFiller.fill_form and FormFiller.process_current_page                *)
(* events records the steps of the run:                                    *)
(*   "page"     a round of the while loop began (line 77)                  *)
(*   "extract"  extract_questions returned; q is the number of questions   *)
(*   "answer"   generate_answer returned for question q of the page        *)
(*   "fill"     fill_answer returned for question q of the page            *)
(*   "decide"   fill_form turned to the navigation agent (line 88)         *)
(***************************************************************************)
Event(e, q) == [e |-> e, q |-> q]

InitFill ==
    /\ form \in Forms
    /\ browserPage = 1
    /\ fpc = "idle"
    /\ current_page = 0
    /\ questions_answered = 0
    /\ total_questions = 0
    /\ qIdx = 0
    /\ fAnswer = NoAnswer
    /\ fillLog = <<>>
    /\ next_actions = <<>>
    /\ navLookups = 0
    /\ result = FALSE
    /\ exitPath = "none"
    /\ statsEmitted = FALSE
    /\ screenshots = 0
    /\ events = <<>>
    /\ runs = 0

\* leave the try block of fill_form with a return value; finally comes next
Leave(value, path) ==
    /\ result' = value
    /\ exitPath' = path
    /\ fpc' = "finally"

\* variant of line 145 that treats an empty question list as a processed page
empty_page_fails_never(questions) == FALSE

\* line 145: if not questions
empty_page_fails(questions) == questions = <<>>

\* lines 64-71: navigate_to returns True, returns False or raises
FillFormStart ==
    /\ fpc = "idle"
    /\ \E outcome \in {"ok", "false", "raises"} :
          IF outcome = "ok"
          THEN /\ fpc' = "page"
               /\ UNCHANGED <<result, exitPath>>
          ELSE IF outcome = "false"
               THEN Leave(FALSE, "navigate_failed")
               ELSE Leave(FALSE, "exception")
    /\ UNCHANGED <<form, browserPage, current_page, questions_answered, total_questions,
                   qIdx, fAnswer, fillLog, next_actions, navLookups, statsEmitted,
                   screenshots, events, runs>>

\* lines 76-85 and 142-156: next loop round, extraction of the page's questions
ProcessPageExtract ==
    /\ fpc = "page"
    /\ current_page' = current_page + 1
    /\ \E extractionRaises \in BOOLEAN :
          LET extract == Event("extract", Len(form[browserPage]))
          IN  IF extractionRaises
              THEN /\ Leave(FALSE, "page_failed")
                   /\ events' = Append(events, Event("page", 0))
                   /\ UNCHANGED qIdx
              ELSE /\ events' = events \o <<Event("page", 0), extract>>
                   /\ IF empty_page_fails(form[browserPage])
                      THEN Leave(FALSE, "no_questions") /\ UNCHANGED qIdx
                      ELSE IF form[browserPage] = <<>>
                           THEN /\ fpc' = "decide"
                                /\ UNCHANGED <<qIdx, result, exitPath>>
                           ELSE /\ fpc' = "answer"
                                /\ qIdx' = 1
                                /\ UNCHANGED <<result, exitPath>>
    /\ UNCHANGED <<form, browserPage, questions_answered, total_questions, fAnswer,
                   fillLog, next_actions, navLookups, statsEmitted, screenshots, runs>>

\* lines 158-195: generate the answer for the question at qIdx
ProcessPageAnswer ==
    /\ fpc = "answer"
    /\ fpc' = "fill"
    /\ LET q == form[browserPage][qIdx]
       IN  \E g \in GenBehaviours(q), r \in Rnd(Len(q.options)) :
               fAnswer' = generate_answer(q, g, r)
    /\ events' = Append(events, Event("answer", qIdx))
    /\ UNCHANGED <<form, browserPage, current_page, questions_answered, total_questions,
                   qIdx, fillLog, next_actions, navLookups, result, exitPath,
                   statsEmitted, screenshots, runs>>

\* variant of the for loop that leaves after its first round
loop_exhausted_after_first(i, questions) == TRUE

\* line 158: the for loop has no further question after the one at position i
loop_exhausted(i, questions) == i >= Len(questions)

\* variant in which a fill that returned False ends the page
page_continues_only_if_filled(filled) == filled

\* lines 215-221: both branches of "if filled" fall through to the end of the
\* loop body
page_continues(filled) == TRUE

\* lines 197-229: fill the answer, count it, go on to the next question
ProcessPageFill ==
    /\ fpc = "fill"
    /\ LET questions == form[browserPage]
           q         == questions[qIdx]
       IN  \E env \in FillEnvs(q) :
              LET filled == fill_answer(q, fAnswer, env)
              IN  /\ fillLog' = Append(fillLog, filled)
                  /\ questions_answered' =
                        IF filled THEN questions_answered + 1 ELSE questions_answered
                  /\ IF ~page_continues(filled)
                     THEN /\ Leave(FALSE, "page_failed")
                          /\ qIdx' = 0
                          /\ UNCHANGED total_questions
                     ELSE IF ~loop_exhausted(qIdx, questions)
                     THEN /\ qIdx' = qIdx + 1
                          /\ fpc' = "answer"
                          /\ UNCHANGED <<total_questions, result, exitPath>>
                     ELSE /\ qIdx' = 0
                          /\ fpc' = "decide"
                          /\ total_questions' = total_questions + Len(questions)
                          /\ UNCHANGED <<result, exitPath>>
    /\ fAnswer' = NoAnswer
    /\ events' = Append(events, Event("fill", qIdx))
    /\ UNCHANGED <<form, browserPage, current_page, next_actions, navLookups,
                   statsEmitted, screenshots, runs>>

\* line 88: self.navigation_agent.determine_next_action() raises
\* AttributeError, which the handler at lines 127-130 turns into return
\* False; lines 90-125 are not reached.
DetermineNextAction ==
    /\ fpc = "decide"
    /\ ~HasMethod("determine_next_action")
    /\ navLookups' = navLookups + 1
    /\ Leave(FALSE, "exception")
    /\ events' = Append(events, Event("decide", 0))
    /\ UNCHANGED <<form, browserPage, current_page, questions_answered, total_questions,
                   qIdx, fAnswer, fillLog, next_actions, statsEmitted, screenshots, runs>>

\* variant in which take_screenshot never returns
Finally_hangs ==
    /\ fpc = "finally"
    /\ UNCHANGED fvars

\* lines 131-133: the finally block, then the return
Finally ==
    /\ fpc = "finally"
    /\ screenshots' = screenshots + 1
    /\ fpc' = "done"
    /\ UNCHANGED <<form, browserPage, current_page, questions_answered, total_questions,
                   qIdx, fAnswer, fillLog, next_actions, navLookups, result, exitPath,
                   statsEmitted, events, runs>>

\* one step of a running fill_form call
FillFormStep ==
    \/ FillFormStart
    \/ ProcessPageExtract
    \/ ProcessPageAnswer
    \/ ProcessPageFill
    \/ DetermineNextAction
    \/ Finally

\* the caller calls fill_form once more on the same FormFiller, with the
\* same URL.  __init__ (lines 47-50) is the only place that assigns the
\* three counters a fresh value, so the new call finds them as the previous
\* call left them; the records kept about one run start afresh.
FillFormAgain ==
    /\ fpc = "done"
    /\ runs < MaxReruns
    /\ runs' = runs + 1
    /\ fpc' = "idle"
    /\ browserPage' = 1
    /\ qIdx' = 0
    /\ fAnswer' = NoAnswer
    /\ fillLog' = <<>>
    /\ next_actions' = <<>>
    /\ navLookups' = 0
    /\ result' = FALSE
    /\ exitPath' = "none"
    /\ statsEmitted' = FALSE
    /\ screenshots' = 0
    /\ events' = <<>>
    /\ UNCHANGED <<form, current_page, questions_answered, total_questions>>

NextFill ==
    \/ FillFormStep
    \/ FillFormAgain

(***************************************************************************)
(* Properties of the orchestrator                                          *)
(***************************************************************************)
\* page 1: one short-text and one 3-option single-choice question;
\* page 2: no question, a submit control only
TwoPageForm == <<<<ShortTextQ, ChoiceQ(3)>>, <<>>>>

AllFillsSucceeded == \A i \in 1..Len(fillLog) : fillLog[i]

\* C7: on the 2-page form, with every fill and click succeeding, the run ends
\* with questions_answered = 2, an advance after page 1, a completion after
\* page 2, and is reported successful.
C7_TwoPageRunSucceeds ==
    (fpc = "done" /\ form = TwoPageForm /\ exitPath \notin {"navigate_failed", "page_failed"}
        /\ Len(fillLog) = 2 /\ AllFillsSucceeded)
        => /\ questions_answered = 2
           /\ next_actions = <<"next", "complete">>
           /\ result = TRUE

\* C9: when extraction returns no question for the current page, fill_form
\* returns False without having consulted the navigation agent.
C9_EmptyPageAborts ==
    (fpc \in {"finally", "done"} /\ current_page >= 1 /\ exitPath # "page_failed"
        /\ form[browserPage] = <<>>)
        => /\ result = FALSE
           /\ navLookups = 0
           /\ next_actions = <<>>

\* a finished run whose first page held no question
C9_Witness ==
    /\ fpc = "done"
    /\ exitPath = "no_questions"
    /\ form[browserPage] = <<>>
    /\ current_page = 1
    /\ result = FALSE
    /\ navLookups = 0

\* C10: every exit of fill_form has emitted the final statistics and has
\* taken the screenshot of the final page.
C10_StatsAndScreenshotOnEveryExit ==
    fpc = "done" => (statsEmitted /\ screenshots = 1)

\* C12: every call of fill_form eventually returns, given that each
\* external call returns: the page loop does not run forever.
C12_FillFormReturns == (fpc = "idle") ~> (fpc = "done")

\* a call that processed a page, turned to the navigation agent and returned
C12_Witness ==
    /\ fpc = "done"
    /\ current_page >= 1
    /\ Len(fillLog) >= 1
    /\ navLookups = 1
    /\ result = FALSE

\* position of the "page" event that opens the loop round event k belongs to
RECURSIVE RoundStart(_)
RoundStart(k) ==
    IF k = 0 THEN 0
    ELSE IF events[k].e = "page" THEN k ELSE RoundStart(k - 1)

\* an event e for question q lies in the same loop round strictly before k
EarlierInRound(k, e, q) ==
    \E j \in RoundStart(k)..(k - 1) : j >= 1 /\ events[j] = Event(e, q)

\* number of questions the extraction of event k's loop round returned
ExtractedInRound(k) ==
    LET j == RoundStart(k) + 1 IN events[j].q

ExtractionDoneInRound(k) ==
    /\ RoundStart(k) >= 1
    /\ RoundStart(k) + 1 < k
    /\ events[RoundStart(k) + 1].e = "extract"

\* C13: within one page cycle the extraction has returned before any answer
\* is generated, a question's answer is generated before that question is
\* filled, and fill_form turns to navigation only after a fill was attempted
\* for every question the extraction returned.
C13_PageCycleOrdered ==
    \A k \in 1..Len(events) :
        /\ events[k].e = "answer" => ExtractionDoneInRound(k)
        /\ events[k].e = "fill" => EarlierInRound(k, "answer", events[k].q)
        /\ events[k].e = "decide" =>
               /\ ExtractionDoneInRound(k)
               /\ \A q \in 1..ExtractedInRound(k) : EarlierInRound(k, "fill", q)

\* a page of two questions, both filled, then the turn to navigation
C13_Witness ==
    /\ Len(events) = 7
    /\ events[2] = Event("extract", 2)
    /\ events[5] = Event("answer", 2)
    /\ events[6] = Event("fill", 2)
    /\ events[7] = Event("decide", 0)

RECURSIVE CountTrue(_)
CountTrue(log) ==
    IF log = <<>> THEN 0
    ELSE (IF Head(log) THEN 1 ELSE 0) + CountTrue(Tail(log))

RECURSIVE CountEvents(_, _)
CountEvents(evs, e) ==
    IF evs = <<>> THEN 0
    ELSE (IF Head(evs).e = e THEN 1 ELSE 0) + CountEvents(Tail(evs), e)

\* C15: when a fill_form call has returned, the three counters hold the
\* pages, the filled questions and the questions of that call alone, also
\* when the FormFiller had completed a call before.
C15_CountersCountThisRunOnly ==
    fpc = "done" =>
        /\ current_page = CountEvents(events, "page")
        /\ questions_answered = CountTrue(fillLog)
        /\ total_questions = Len(fillLog)

\* C25: a fill_answer call that returned False does not end the page.  Every
\* fill is recorded; questions_answered grows by one when the fill returned
\* True and stays as it is when it returned False; after either, the next
\* question of the page gets its answer generated, and after the last
\* question process_current_page has returned True: fill_form goes on to
\* line 88.
C25_FailedFillDoesNotAbortPage ==
    [][fpc = "fill" =>
          LET filled == fillLog'[Len(fillLog')]
          IN  /\ fillLog' = Append(fillLog, filled)
              /\ questions_answered' = questions_answered + (IF filled THEN 1 ELSE 0)
              /\ IF qIdx < Len(form[browserPage])
                 THEN fpc' = "answer" /\ qIdx' = qIdx + 1
                 ELSE fpc' = "decide"]_vars

\* a page of two questions: the first fill failed, the second went through
C25_Witness ==
    /\ fpc = "decide"
    /\ runs = 0
    /\ Len(form[browserPage]) = 2
    /\ fillLog = <<FALSE, TRUE>>
    /\ questions_answered = 1
    /\ total_questions = 2

(***************************************************************************)
(* Properties of the navigation agent                                      *)
(***************************************************************************)
\* the page shows a usable control of the kind that some selector of the list finds
Exposes(p, element, identifiers) ==
    /\ element \in p.usable
    /\ \E i \in 1..Len(identifiers) : p.match[identifiers[i]] = element

SubmitAffordance(p)  == Exposes(p, SubmitBtn, SUBMIT_BUTTON_IDENTIFIERS)
AdvanceAffordance(p) == Exposes(p, NextBtn, NEXT_BUTTON_IDENTIFIERS)

IsNavCall == navCalls' = navCalls + 1

\* C4: whenever the page is not completed and exposes both a visible, enabled
\* submit affordance and a visible, enabled advance affordance, navigate_next
\* calls click on the submit affordance and never on the advance affordance.
C4_SubmitPriority ==
    [][(IsNavCall /\ ~is_form_completed(page)
            /\ SubmitAffordance(page) /\ AdvanceAffordance(page))
        => nav'.target = SubmitBtn]_vars

GiveUpPaths == {"submit_giveup", "next_giveup"}

\* what a caller receives from a cycle that found the form completed (line 69)
CompletedReport == FALSE

\* every navigate_next call made so far was a click attempt that failed
AllClicksFailed == navCalls > 0 /\ next_page_attempts = navCalls

\* C5: when the click fails on every attempt, the agent reports Stuck after
\* exactly max_attempts click attempts, neither earlier nor later, and what
\* it reports then differs from what it reports for a completed form.
C5_StuckAfterMaxAttempts ==
    AllClicksFailed =>
        /\ (nav.path \in GiveUpPaths) <=> (navCalls >= max_attempts)
        /\ (nav.path \in GiveUpPaths) => (nav.ret # CompletedReport)

\* C6: every navigate_next call on a page for which is_form_completed holds
\* reports Completed (returns False from the completion branch), calls click
\* on nothing and leaves the page as it is; so once Completed was reported,
\* each later call on the unchanged page reports Completed again and none
\* reports an advance.
C6_CompletionIdempotent ==
    [][(IsNavCall /\ is_form_completed(page))
        => /\ nav'.path = "completed"
           /\ nav'.ret = CompletedReport
           /\ nav'.target = NoElement
           /\ page' = page
           /\ is_form_completed(page')]_vars

\* a second or later call reports Completed on a page that still shows a
\* usable submit control and a usable advance control
C6_Witness ==
    /\ navCalls >= 2
    /\ nav.path = "completed"
    /\ is_form_completed(page)
    /\ SubmitAffordance(page)
    /\ AdvanceAffordance(page)

\* C14: when a submit click raised no error and, after the completion
\* wait, no completion indicator is detected while a submit or advance
\* affordance is still present, the call reports a failed submission: what
\* it returns differs from what it returns for a completed form.
C14_UnconfirmedSubmitReportedFailed ==
    (nav.path = "submitted" /\ ~wait_for_form_completion(page)
        /\ (SubmitAffordance(page) \/ AdvanceAffordance(page)))
        => nav.ret # CompletedReport

SubmitPaths  == {"submitted", "submit_retry", "submit_giveup"}
AdvancePaths == {"advanced", "next_retry", "next_giveup"}

\* C28: on a page that is not completed and exposes a usable advance control
\* and no usable submit control, navigate_next takes the advance branch for
\* whichever selector alternatives match the advance control: it calls click
\* on the advance control, does not report a submission, and when the click
\* goes through it reports that the run continues.
C28_AdvanceOnlyPageNeverSubmits ==
    [][(IsNavCall /\ ~is_form_completed(page)
            /\ AdvanceAffordance(page) /\ ~SubmitAffordance(page))
        => /\ nav'.target = NextBtn
           /\ nav'.path \in AdvancePaths
           /\ nav'.path \notin SubmitPaths
           /\ (nav'.path = "advanced" => nav'.ret = TRUE)]_vars

(***************************************************************************)
(* Properties of the dispatcher                                            *)
(***************************************************************************)
NOpts == Len(question.options)

\* C1: for a multiple_choice or dropdown question with N >= 1 options the
\* index returned by generate_answer satisfies 0 <= index < N, whatever the
\* generator answered or raised.
C1_SingleIndexInRange ==
    (apc = "done" /\ question.type \in {MULTIPLE_CHOICE, DROPDOWN} /\ NOpts >= 1)
        => (answer.kind = "int" /\ 0 <= answer.int /\ answer.int < NOpts)

\* a dropdown call whose response names an option number beyond the options
C1_Witness ==
    /\ apc = "done"
    /\ question.type = DROPDOWN
    /\ NOpts = MaxOptions
    /\ ~gen.raises
    /\ gen.text = <<Word, Sel(NOpts + 1)>>
    /\ answer = IntAns(0)

\* C2: for a checkbox question with N >= 1 options generate_answer returns a
\* non-empty collection of indices, each of them in 0..N-1, whatever the
\* generator answered or raised.
C2_MultiIndexNonEmptyInRange ==
    (apc = "done" /\ question.type = CHECKBOX /\ NOpts >= 1)
        => /\ answer.kind = "list"
           /\ Len(answer.list) >= 1
           /\ \A i \in 1..Len(answer.list) : 0 <= answer.list[i] /\ answer.list[i] < NOpts

\* a checkbox call whose response lists one valid and one invalid number
C2_Witness ==
    /\ apc = "done"
    /\ question.type = CHECKBOX
    /\ NOpts = 4
    /\ ~gen.raises
    /\ gen.text = [match |-> TRUE, nums |-> <<5, 2>>]
    /\ answer = ListAns(<<1>>)

\* C3: the string returned for a text question has at most 30 characters,
\* for every generator output and when the generator fails.
C3_ShortTextAtMost30 ==
    (apc = "done" /\ question.type = TEXT) => (answer.kind = "str" /\ Len(answer.str) <= 30)

\* a text call whose generator output is longer than 30 characters
C3_Witness ==
    /\ apc = "done"
    /\ question.type = TEXT
    /\ ~gen.raises
    /\ Len(strip(gen.text)) > 30
    /\ Len(answer.str) = 30

\* the value generate_answer returns when the generator call raised
FailureAnswer(q) ==
    IF q.type = TEXT THEN StrAns(SAMPLE_RESPONSE)
    ELSE IF q.type = PARAGRAPH THEN StrAns(SAMPLE_PARAGRAPH)
    ELSE IF q.type = CHECKBOX THEN ListAns(<<0>>)
    ELSE IntAns(0)

\* C11: when the call of the external generator raises, generate_answer
\* returns (it does not propagate the error) and the value it returns is the
\* fixed value of the question's type: one fixed string for text, one for
\* paragraph, index 0 for multiple_choice and dropdown, [0] for checkbox with
\* options; the value depends on nothing but the type.
C11_GeneratorErrorYieldsFixedFallback ==
    (apc = "done" /\ gen.raises /\ generator_called(question, rnd))
        => answer = FailureAnswer(question)

\* a checkbox call with more than three options whose generator call raised
C11_Witness ==
    /\ apc = "done"
    /\ gen.raises
    /\ question.type = CHECKBOX
    /\ NOpts > 3
    /\ generator_called(question, rnd)
    /\ answer = ListAns(<<0>>)

\* position of the first whitespace-delimited integer token k with
\* 1 <= k <= n, 0 if there is none
RECURSIVE FirstInRangeToken(_, _, _)
FirstInRangeToken(toks, i, n) ==
    IF i > Len(toks) THEN 0
    ELSE IF toks[i].k = "num" /\ 1 <= toks[i].n /\ toks[i].n <= n THEN i
    ELSE FirstInRangeToken(toks, i + 1, n)

\* the generator answered and its response lacks "Selected option: <number>"
UnconstrainedResponse ==
    /\ apc = "done"
    /\ question.type \in {MULTIPLE_CHOICE, DROPDOWN}
    /\ generator_called(question, rnd)
    /\ ~gen.raises
    /\ FirstSel(gen.text, 1) = 0

\* C24: when the response lacks the "Selected option" pattern and holds an
\* integer token k with 1 <= k <= N, the index returned is k - 1 for the
\* first such token, for k = 1 as for every other k; no random pick is made.
\* Stated for responses all of whose digit words are decimal integers.
C24_FirstInRangeTokenWins ==
    (UnconstrainedResponse /\ FirstInRangeToken(gen.text, 1, NOpts) # 0
        /\ \A i \in 1..Len(gen.text) : gen.text[i].k # "uni")
        => answer = IntAns(gen.text[FirstInRangeToken(gen.text, 1, NOpts)].n - 1)

\* C27: the list returned for a checkbox question holds no index twice,
\* whatever the generator answered.
C27_CheckboxAnswerHasNoDuplicate ==
    (apc = "done" /\ question.type = CHECKBOX)
        => \A i, j \in 1..Len(answer.list) : answer.list[i] = answer.list[j] => i = j

AnswerIdle ==
    /\ question = Question(UNKNOWN, 0)
    /\ gen = NoGen
    /\ rnd = NoRnd
    /\ answer = NoAnswer
    /\ apc = "idle"

NavIdle ==
    /\ page = [completed |-> "no", match |-> Matches(NoElement, NoElement, NoElement), usable |-> {}]
    /\ next_page_attempts = 0
    /\ nav = NoNav
    /\ navCalls = 0

ExtractIdle ==
    /\ dom = [text_inputs |-> <<>>, text_areas |-> <<>>, radios |-> <<>>,
              checkboxes |-> <<>>, dropdowns |-> <<>>, dropdown_options |-> <<>>,
              labels |-> FALSE, locationRaises |-> FALSE]
    /\ extracted = <<>>
    /\ radio_groups = <<>>
    /\ epc = "idle"

FillIdle ==
    /\ form = <<<<>>>>
    /\ browserPage = 1
    /\ fpc = "idle"
    /\ current_page = 0
    /\ questions_answered = 0
    /\ total_questions = 0
    /\ qIdx = 0
    /\ fAnswer = NoAnswer
    /\ fillLog = <<>>
    /\ next_actions = <<>>
    /\ navLookups = 0
    /\ result = FALSE
    /\ exitPath = "none"
    /\ statsEmitted = FALSE
    /\ screenshots = 0
    /\ events = <<>>
    /\ runs = 0

DriverIdle ==
    /\ dq = DriverQuestion(UNKNOWN, "none", 0)
    /\ dans = StrAns(<<"a">>)
    /\ denv = NoEnv
    /\ dres = NoDriverRun
    /\ dpc = "idle"

ClassifyIdle ==
    /\ container = [k \in ControlKinds \cup {"option"} |-> 0]
    /\ classified = NoClassified
    /\ cpc = "idle"

ScanIdle ==
    /\ question_texts = <<>>
    /\ scanDom = [text_inputs |-> <<>>, text_areas |-> <<>>, radios |-> <<>>,
                  checkboxes |-> <<>>, dropdowns |-> <<>>, dropdown_options |-> <<>>,
                  labels |-> FALSE, locationRaises |-> FALSE]
    /\ scanned = NoScan
    /\ spc = "idle"

ConstructIdle ==
    /\ kwargs = <<>>
    /\ kenv = [configKey |-> FALSE, driverRaises |-> FALSE]
    /\ built = NoBuilt
    /\ kpc = "idle"

MainIdle ==
    /\ margs = [api_key |-> FALSE, submissions |-> 0]
    /\ outcomes = <<>>
    /\ successful_submissions = 0
    /\ exit_code = 0 - 1
    /\ mpc = "start"

AnswerStart ==
    InitAnswer /\ NavIdle /\ ExtractIdle /\ FillIdle /\ DriverIdle /\ ClassifyIdle /\ ScanIdle /\ ConstructIdle /\ MainIdle

AnswerStep == NextAnswer /\ UNCHANGED <<nvars, evars, fvars, dvars, cvars, svars, kvars, mvars>>

SpecAnswer == AnswerStart /\ [][AnswerStep]_vars

NavStart ==
    InitNav /\ AnswerIdle /\ ExtractIdle /\ FillIdle /\ DriverIdle /\ ClassifyIdle /\ ScanIdle /\ ConstructIdle /\ MainIdle

NavStep == NextNav /\ UNCHANGED <<avars, evars, fvars, dvars, cvars, svars, kvars, mvars>>

SpecNav == NavStart /\ [][NavStep]_vars

ExtractStart ==
    InitExtract /\ AnswerIdle /\ NavIdle /\ FillIdle /\ DriverIdle /\ ClassifyIdle /\ ScanIdle /\ ConstructIdle /\ MainIdle

ExtractStep == NextExtract /\ UNCHANGED <<avars, nvars, fvars, dvars, cvars, svars, kvars, mvars>>

SpecExtract == ExtractStart /\ [][ExtractStep]_vars

FillStart ==
    InitFill /\ AnswerIdle /\ NavIdle /\ ExtractIdle /\ DriverIdle /\ ClassifyIdle /\ ScanIdle /\ ConstructIdle /\ MainIdle

FillStep == NextFill /\ UNCHANGED <<avars, nvars, evars, dvars, cvars, svars, kvars, mvars>>

SpecFill == FillStart /\ [][FillStep]_vars

\* a running fill_form call keeps taking steps, each of which moves fpc; a
\* further call is up to the caller
FillFormProgress ==
    FillFormStep /\ UNCHANGED <<avars, nvars, evars, dvars, cvars, svars, kvars, mvars, runs>>

SpecFillLive == FillStart /\ [][FillStep]_vars /\ WF_fpc(FillFormProgress)

DriverStart ==
    InitDriver /\ AnswerIdle /\ NavIdle /\ ExtractIdle /\ FillIdle /\ ClassifyIdle /\ ScanIdle /\ ConstructIdle /\ MainIdle

DriverStep == NextDriver /\ UNCHANGED <<avars, nvars, evars, fvars, cvars, svars, kvars, mvars>>

SpecDriver == DriverStart /\ [][DriverStep]_vars

ClassifyStart ==
    InitClassify /\ AnswerIdle /\ NavIdle /\ ExtractIdle /\ FillIdle /\ DriverIdle /\ ScanIdle /\ ConstructIdle /\ MainIdle

ClassifyStep == NextClassify /\ UNCHANGED <<avars, nvars, evars, fvars, dvars, svars, kvars, mvars>>

SpecClassify == ClassifyStart /\ [][ClassifyStep]_vars

ScanStart ==
    InitScan /\ AnswerIdle /\ NavIdle /\ ExtractIdle /\ FillIdle /\ DriverIdle /\ ClassifyIdle /\ ConstructIdle /\ MainIdle

ScanStep == NextScan /\ UNCHANGED <<avars, nvars, evars, fvars, dvars, cvars, kvars, mvars>>

SpecScan == ScanStart /\ [][ScanStep]_vars

ConstructStart ==
    InitConstruct /\ AnswerIdle /\ NavIdle /\ ExtractIdle /\ FillIdle /\ DriverIdle /\ ClassifyIdle /\ ScanIdle /\ MainIdle

ConstructStep == NextConstruct /\ UNCHANGED <<avars, nvars, evars, fvars, dvars, cvars, svars, mvars>>

SpecConstruct == ConstructStart /\ [][ConstructStep]_vars

MainStartState ==
    InitMain /\ AnswerIdle /\ NavIdle /\ ExtractIdle /\ FillIdle /\ DriverIdle /\ ClassifyIdle /\ ScanIdle /\ ConstructIdle

MainStep == NextMain /\ UNCHANGED <<avars, nvars, evars, fvars, dvars, cvars, svars, kvars>>

SpecMain == MainStartState /\ [][MainStep]_vars

====
